---- MODULE Spec2Model ----
(***************************************************************************)
(* Model of the GoTrading post-order dispatcher (PostOrderHandler) and of  *)
(* the listing indexer operations that drive it.                           *)
(*                                                                         *)
(* One dispatcher call is observed at a time: handle() runs synchronously  *)
(* up to its first await (only the Blur branch has one), the backend       *)
(* answers later, and a protocol handler's promise settles on its own.     *)
(***************************************************************************)
EXTENDS Integers, Sequences, FiniteSets, TLC

\* ------------------------------------------------------------------ bounds
\* Stand-in for the 32-byte words r and s of an ECDSA signature.
WordLen == 1
\* Merkle proofs have 0..MaxProof entries.
MaxProof == 1
\* Bulk order indexes range over 0..MaxOrderIndex.
MaxOrderIndex == 1
\* bulkListing batches hold 1..MaxBatch orders.
MaxBatch == 2
\* Other calls of handle suspended at their await: 0..MaxInFlight.
MaxInFlight == 1

\* ------------------------------------------------------------- vocabulary
\* OrderKind: the three kinds a handler exists for, Blur, and one more kind.
Kinds == {"SeaportV15", "LooksRareV2", "X2Y2", "Blur", "Sudoswap"}

ConfigKeys == {"openSeaApiKeyConfig", "looksRareApiKeyConfig", "x2y2ApiKeyConfig"}

Versions == {"v3", "v4", "v9"}

\* A signature argument: undefined, the empty string, a string that is not
\* hex, or a hex string of some bytes.
Undefined == [kind |-> "undefined", bytes |-> <<>>]
EmptyString == [kind |-> "empty", bytes |-> <<>>]
NotHex == [kind |-> "text", bytes |-> <<>>]
Hex(bs) == [kind |-> "hex", bytes |-> bs]

Word(b) == [i \in 1..WordLen |-> b]

\* 137 = 128 + 9 has its top bit set (EIP-2098 yParity).
RVals == {7}
SVals == {9, 137}
VVals == {0, 1, 2, 27, 28}

FullSignatures == {Hex(Word(r) \o Word(s) \o <<v>>) : r \in RVals, s \in SVals, v \in VVals}
CompactSignatures == {Hex(Word(r) \o Word(s)) : r \in RVals, s \in SVals}
BadLengthSignatures == {Hex(<<>>), Hex(Word(7) \o Word(9) \o <<28, 28>>)}

Signatures ==
    {Undefined, EmptyString, NotHex} \cup FullSignatures \cup CompactSignatures
        \cup BadLengthSignatures

\* bulkData: absent, the Seaport bulk kind, or some other kind.
NoBulk == [kind |-> "none", orderIndex |-> 0, merkleProof |-> <<>>]
Proofs == UNION {[1..n -> {5}] : n \in 0..MaxProof}
BulkDatas ==
    {NoBulk, [kind |-> "other", orderIndex |-> 0, merkleProof |-> <<>>]}
        \cup {[kind |-> "seaport-v1.5", orderIndex |-> i, merkleProof |-> mp] :
                 i \in 0..MaxOrderIndex, mp \in Proofs}

\* order.data: a payload without signature fields, and one that already
\* carries all four.
SignatureFields == {"signature", "v", "r", "s"}
FreshData == [price |-> <<3>>]
SignedData == [price |-> <<3>>, signature |-> <<4>>, v |-> <<27>>, r |-> <<4>>, s |-> <<4>>]
Datas == {FreshData, SignedData}

PostOrderReqs ==
    {[order |-> [kind |-> k, data |-> d], signature |-> sg, bulkData |-> b,
      extraArgs |-> [version |-> ver]] :
        k \in Kinds, d \in Datas, sg \in Signatures, b \in BulkDatas, ver \in Versions}

\* ------------------------------------------------------------------ state
VARIABLES
    config,        \* the API-key configs supplied at construction
    handlers,      \* kind -> handler registry
    pc,            \* "idle", "awaitPost", "resolved", "rejected"
    input,         \* the PostOrderReq as it was passed to handle
    params,        \* the PostOrderReq object as it is now (order.data mutates)
    result,        \* value handle resolved with
    error,         \* error handle rejected with
    handlerCalls,  \* protocol handler invocations of this call
    posts,         \* HTTP posts of this call
    received,      \* the envelope the HTTP client returned to post
    res,           \* what `await this.post(...)` yielded in handle
    inflight,      \* other calls of handle awaiting their Blur post
    prepare,       \* the observed prepareListing call
    bulk           \* the observed bulkListing call

callVars ==
    <<pc, input, params, result, error, handlerCalls, posts, received, res, inflight>>
listingVars == <<prepare, bulk>>
vars == <<config, handlers, callVars, listingVars>>

NoError == [name |-> "", param |-> "", message |-> "", signature |-> Undefined,
            code |-> "", path |-> ""]
NoResult == "none"
NoResponse == [code |-> "", msg |-> "", data |-> ""]
NoParams == [order |-> [kind |-> "", data |-> FreshData], signature |-> Undefined,
             bulkData |-> NoBulk, extraArgs |-> [version |-> ""]]

\* ----------------------------------------------------------- constructor
HandlerClass(kind) ==
    CASE kind = "SeaportV15" -> "SeaportV1D5Handler"
      [] kind = "LooksRareV2" -> "LooksRareV2Handler"
      [] kind = "X2Y2" -> "X2Y2Handler"

\* Mutant: the third test is a copy of the second, X2Y2 follows LooksRare's key.
Constructor_CopiedTest(cfg) ==
    LET kinds == (IF "openSeaApiKeyConfig" \in cfg THEN {"SeaportV15"} ELSE {})
                 \cup (IF "looksRareApiKeyConfig" \in cfg THEN {"LooksRareV2"} ELSE {})
                 \cup (IF "looksRareApiKeyConfig" \in cfg THEN {"X2Y2"} ELSE {})
    IN [k \in kinds |-> HandlerClass(k)]

Constructor(cfg) ==
    LET kinds == (IF "openSeaApiKeyConfig" \in cfg THEN {"SeaportV15"} ELSE {})
                 \cup (IF "looksRareApiKeyConfig" \in cfg THEN {"LooksRareV2"} ELSE {})
                 \cup (IF "x2y2ApiKeyConfig" \in cfg THEN {"X2Y2"} ELSE {})
    IN [k \in kinds |-> HandlerClass(k)]

\* ------------------------------------------------------------- signatures
\* `if (signature)`: undefined and '' are falsy.
Truthy(sig) == sig.kind \notin {"undefined", "empty"}

\* Mutant: only the 64-byte compact form is accepted.
SplitThrows_CompactOnly(sig) ==
    \/ sig.kind # "hex"
    \/ Len(sig.bytes) # 2 * WordLen

\* ethers splitSignature: 64 bytes is the EIP-2098 compact form (v in the top
\* bit of s), 65 bytes is r || s || v with a recid 0/1 raised to 27/28; any
\* other length, a v below 27 that is no recid, and a non-hex string throw.
SplitThrows(sig) ==
    \/ sig.kind # "hex"
    \/ Len(sig.bytes) \notin {2 * WordLen, 2 * WordLen + 1}
    \/ /\ Len(sig.bytes) = 2 * WordLen + 1
       /\ sig.bytes[2 * WordLen + 1] < 27
       /\ sig.bytes[2 * WordLen + 1] \notin {0, 1}

splitSignature(sig) ==
    LET bs == sig.bytes
        r == SubSeq(bs, 1, WordLen)
        sRaw == SubSeq(bs, WordLen + 1, 2 * WordLen)
    IN IF Len(bs) = 2 * WordLen
       THEN [v |-> 27 + (sRaw[1] \div 128),
             r |-> r,
             s |-> [i \in 1..WordLen |-> IF i = 1 THEN sRaw[1] % 128 ELSE sRaw[i]]]
       ELSE [v |-> IF bs[2 * WordLen + 1] < 27 THEN bs[2 * WordLen + 1] + 27
                   ELSE bs[2 * WordLen + 1],
             r |-> r,
             s |-> sRaw]

\* Mutant: r and s are taken from each other's place.
MergeSignature_SwappedWords(data, sig) ==
    LET sp == splitSignature(sig)
    IN [f \in DOMAIN data \cup SignatureFields |->
           CASE f = "signature" -> sig.bytes
             [] f = "v" -> <<sp.v>>
             [] f = "r" -> sp.s
             [] f = "s" -> sp.r
             [] OTHER -> data[f]]

\* Mutant: the spread of the old payload is forgotten.
MergeSignature_NoSpread(data, sig) ==
    LET sp == splitSignature(sig)
    IN [signature |-> sig.bytes, v |-> <<sp.v>>, r |-> sp.r, s |-> sp.s]

\* { ...params.order.data, signature, v, r, s }
MergeSignature(data, sig) ==
    LET sp == splitSignature(sig)
    IN [f \in DOMAIN data \cup SignatureFields |->
           CASE f = "signature" -> sig.bytes
             [] f = "v" -> <<sp.v>>
             [] f = "r" -> sp.r
             [] f = "s" -> sp.s
             [] OTHER -> data[f]]

\* Seaport bulk signature: length-prefixed proof array, then the signature.
encodeBulkOrderProofAndSignature(orderIndex, merkleProof, sig) ==
    <<orderIndex, Len(merkleProof)>> \o merkleProof \o sig.bytes

\* params.order.data.signature = encodeBulkOrderProofAndSignature(...)
SetBulkSignature(data, bulkData, sig) ==
    [f \in DOMAIN data \cup {"signature"} |->
        IF f = "signature"
        THEN encodeBulkOrderProofAndSignature(bulkData.orderIndex, bulkData.merkleProof, sig)
        ELSE data[f]]

\* --------------------------------------------------------------- errors
invalidParamError(param, message, sig) ==
    [name |-> "InvalidParamError", param |-> param, message |-> message, signature |-> sig,
     code |-> "", path |-> ""]

AggregatorApiException(msg, code, path) ==
    [name |-> "AggregatorApiException", param |-> "", message |-> msg,
     signature |-> Undefined, code |-> code, path |-> path]

\* ------------------------------------------------------------ handle
\* Mutant: the Blur branch is missing, every kind goes to the registry.
IsBlur_Never(p) == FALSE

\* params.order.kind === OrderKind.Blur
IsBlur(p) == p.order.kind = "Blur"

\* The outcome of the synchronous branch: either it throws, or it calls
\* handler.handle(params.order) without awaiting it and returns undefined.
Thrown(e, p) == [threw |-> TRUE, error |-> e, data |-> p.order.data, invoked |-> FALSE]
Invoked(data) == [threw |-> FALSE, error |-> NoError, data |-> data, invoked |-> TRUE]

CaseV3(p) ==
    IF Truthy(p.signature)
    THEN IF SplitThrows(p.signature)
         THEN Thrown(invalidParamError("signature", "invalid signature ", p.signature), p)
         ELSE Invoked(MergeSignature(p.order.data, p.signature))
    ELSE Invoked(p.order.data)

\* Mutant: the bulk branch is missing, v4 behaves as v3.
CaseV4_NoBulk(p) == CaseV3(p)

\* Mutant: the bulk signature is encoded before the signature is split.
CaseV4_BulkBeforeSplit(p) ==
    IF Truthy(p.signature)
    THEN IF p.bulkData.kind = "seaport-v1.5"
         THEN Invoked(SetBulkSignature(p.order.data, p.bulkData, p.signature))
         ELSE IF SplitThrows(p.signature)
              THEN Thrown(invalidParamError("signature", "invalid signature ", p.signature), p)
              ELSE Invoked(MergeSignature(p.order.data, p.signature))
    ELSE Invoked(p.order.data)

CaseV4(p) ==
    IF Truthy(p.signature)
    THEN IF SplitThrows(p.signature)
         THEN Thrown(invalidParamError("signature", "invalid signature ", p.signature), p)
         ELSE IF p.bulkData.kind = "seaport-v1.5"
              THEN Invoked(SetBulkSignature(p.order.data, p.bulkData, p.signature))
              ELSE Invoked(MergeSignature(p.order.data, p.signature))
    ELSE Invoked(p.order.data)

\* Mutant: the version is examined before the handler is looked up.
Dispatch_VersionFirst(h, p) ==
    IF p.extraArgs.version \notin {"v3", "v4"}
    THEN Thrown(invalidParamError("extraArgs.version",
                    "unsupported version " \o p.extraArgs.version, Undefined), p)
    ELSE IF p.order.kind \notin DOMAIN h
         THEN Thrown(invalidParamError("order.kind",
                         "unsupported orderKind " \o p.order.kind, Undefined), p)
         ELSE IF p.extraArgs.version = "v3" THEN CaseV3(p) ELSE CaseV4(p)

\* Mutant: the switch has no default, an unknown version is handled as v4.
Dispatch_DefaultV4(h, p) ==
    IF p.order.kind \notin DOMAIN h
    THEN Thrown(invalidParamError("order.kind", "unsupported orderKind " \o p.order.kind,
                                  Undefined), p)
    ELSE IF p.extraArgs.version = "v3" THEN CaseV3(p) ELSE CaseV4(p)

\* Mutant: the unknown-version error names the wrong parameter.
Dispatch_WrongParam(h, p) ==
    IF p.order.kind \notin DOMAIN h
    THEN Thrown(invalidParamError("order.kind", "unsupported orderKind " \o p.order.kind,
                                  Undefined), p)
    ELSE CASE p.extraArgs.version = "v3" -> CaseV3(p)
           [] p.extraArgs.version = "v4" -> CaseV4(p)
           [] OTHER -> Thrown(invalidParamError("order.kind",
                                  "unsupported version " \o p.extraArgs.version,
                                  Undefined), p)

\* handle(params), the branch of every kind but Blur.
Dispatch(h, p) ==
    IF p.order.kind \notin DOMAIN h
    THEN Thrown(invalidParamError("order.kind", "unsupported orderKind " \o p.order.kind,
                                  Undefined), p)
    ELSE CASE p.extraArgs.version = "v3" -> CaseV3(p)
           [] p.extraArgs.version = "v4" -> CaseV4(p)
           [] OTHER -> Thrown(invalidParamError("extraArgs.version",
                                  "unsupported version " \o p.extraArgs.version,
                                  Undefined), p)

\* ------------------------------------------------------------ backend post
Url == "BASE_URL" \o "/aggregator" \o "/v1" \o "/" \o "eth" \o "/nft"

Responses ==
    {[code |-> c, msg |-> "m", data |-> "d"] : c \in {"SUCCESS", "ERROR", "success"}}

\* Mutant: the code is not examined, every envelope yields its data.
PostOutcome_AnyCode(response, path) ==
    [threw |-> FALSE, value |-> response.data, error |-> NoError]

\* post(): data on code SUCCESS, AggregatorApiException otherwise.
PostOutcome(response, path) ==
    IF response.code = "SUCCESS"
    THEN [threw |-> FALSE, value |-> response.data, error |-> NoError]
    ELSE [threw |-> TRUE, value |-> NoResult,
          error |-> AggregatorApiException(response.msg, response.code, path)]

\* ------------------------------------------------------- listing indexer
\* prepareListing takes 0..MaxNfts NFTs.
MaxNfts == 2
NftIds == {"nft1", "nft2"}
NftLists == UNION {[1..n -> NftIds] : n \in 0..MaxNfts}

IdlePrepare == [pc |-> "idle", nfts |-> <<>>, error |-> "", value |-> "none"]

\* The text an InvalidParamError shows.
InvalidParamMessage(param, msg) == "The param '" \o param \o "' is invalid. " \o msg

\* An order of a batch: its marketplace's kind and the posting version.
ListingOrders == [kind : Kinds, version : {"v4", "v9"}]
Batches == UNION {[1..n -> ListingOrders] : n \in 1..MaxBatch}

IdleBulk == [pc |-> "idle", orders |-> <<>>, items |-> <<>>, result |-> <<<<>>, <<>>>>]

\* What the wallet returns when it signs: r || s || v.
WalletSignature == Hex(Word(7) \o Word(9) \o <<28>>)

\* The PostOrderReq postListingOrder hands to the dispatcher.
ListingReq(o) ==
    [order |-> [kind |-> o.kind, data |-> FreshData], signature |-> WalletSignature,
     bulkData |-> NoBulk, extraArgs |-> [version |-> o.version]]

\* postListingOrder for a non-Blur order: the dispatcher's throw is caught and
\* becomes the item's failure; a dispatch that returns is the item's success.
PostListingOutcome(h, o) ==
    IF Dispatch(h, ListingReq(o)).threw THEN "fail" ELSE "ok"

\* The 0-based indexes of the items whose status is in sts, in input order.
IndexesOf(items, sts) ==
    SelectSeq([i \in 1..Len(items) |-> i - 1], LAMBDA j : items[j + 1] \in sts)

\* ---------------------------------------------------------------- actions
Init ==
    /\ config \in SUBSET ConfigKeys
    /\ handlers = Constructor(config)
    /\ pc = "idle"
    /\ input = NoParams
    /\ params = NoParams
    /\ result = NoResult
    /\ error = NoError
    /\ handlerCalls = <<>>
    /\ posts = <<>>
    /\ received = NoResponse
    /\ res = NoResult
    /\ inflight = 0
    /\ prepare = IdlePrepare
    /\ bulk = IdleBulk

\* handle(params) with order.kind === Blur, up to `await this.post(...)`.
HandleBlur(p) ==
    /\ pc = "idle"
    /\ IsBlur(p)
    /\ input' = p
    /\ params' = p
    /\ posts' = Append(posts, [url |-> Url \o "/post-order/v1", body |-> p])
    /\ pc' = "awaitPost"
    /\ UNCHANGED <<config, handlers, inflight, result, error, handlerCalls, received, res>>
    /\ UNCHANGED listingVars

\* The backend answers the Blur post; handle resolves or rejects.
PostResponse(response) ==
    /\ pc = "awaitPost"
    /\ LET out == PostOutcome(response, "/post-order/v1")
       IN /\ res' = out.value
          /\ IF out.threw
             THEN /\ pc' = "rejected"
                  /\ error' = out.error
                  /\ UNCHANGED result
             ELSE /\ pc' = "resolved"
                  /\ result' = "blur"
                  /\ UNCHANGED error
    /\ received' = response
    /\ UNCHANGED <<config, handlers, inflight, input, params, handlerCalls, posts>>
    /\ UNCHANGED listingVars

\* The HTTP client's own promise rejects; the rejection passes through.
PostFails ==
    /\ pc = "awaitPost"
    /\ pc' = "rejected"
    /\ error' = [NoError EXCEPT !.name = "TransportError"]
    /\ UNCHANGED <<config, handlers, inflight, input, params, result, handlerCalls, posts, received, res>>
    /\ UNCHANGED listingVars

\* handle(params) with any other kind: runs to completion without suspending.
HandleOther(p) ==
    /\ pc = "idle"
    /\ ~IsBlur(p)
    /\ input' = p
    /\ LET out == Dispatch(handlers, p)
       IN /\ params' = [p EXCEPT !.order.data = out.data]
          /\ IF out.threw
             THEN /\ pc' = "rejected"
                  /\ error' = out.error
                  /\ UNCHANGED <<result, handlerCalls>>
             ELSE /\ pc' = "resolved"
                  /\ result' = "undefined"
                  /\ handlerCalls' = Append(handlerCalls,
                        [handler |-> handlers[p.order.kind],
                         order |-> [kind |-> p.order.kind, data |-> out.data],
                         state |-> "pending"])
                  /\ UNCHANGED error
    /\ UNCHANGED <<config, handlers, inflight, posts, received, res>>
    /\ UNCHANGED listingVars

\* Mutant: a rejected handler call is tried once more.
HandlerSettles_Retry(i, outcome) ==
    /\ i \in 1..Len(handlerCalls)
    /\ handlerCalls[i].state = "pending"
    /\ handlerCalls' =
          IF outcome = "rejected" /\ Len(handlerCalls) = 1
          THEN Append([handlerCalls EXCEPT ![i].state = outcome],
                      [handlerCalls[i] EXCEPT !.state = "pending"])
          ELSE [handlerCalls EXCEPT ![i].state = outcome]
    /\ UNCHANGED <<config, handlers, inflight, pc, input, params, result, error, posts, received, res>>
    /\ UNCHANGED listingVars

\* A protocol handler's network call finishes, well or badly.
HandlerSettles(i, outcome) ==
    /\ i \in 1..Len(handlerCalls)
    /\ handlerCalls[i].state = "pending"
    /\ handlerCalls' = [handlerCalls EXCEPT ![i].state = outcome]
    /\ UNCHANGED <<config, handlers, inflight, pc, input, params, result, error, posts, received, res>>
    /\ UNCHANGED listingVars

\* The caller has its answer and nothing of the call is outstanding.
Return ==
    /\ pc \in {"resolved", "rejected"}
    /\ \A i \in 1..Len(handlerCalls) : handlerCalls[i].state # "pending"
    /\ pc' = "idle"
    /\ input' = NoParams
    /\ params' = NoParams
    /\ result' = NoResult
    /\ error' = NoError
    /\ handlerCalls' = <<>>
    /\ posts' = <<>>
    /\ received' = NoResponse
    /\ res' = NoResult
    /\ UNCHANGED <<config, handlers, inflight>>
    /\ UNCHANGED listingVars

\* Another caller's handle reaches `await this.post(...)` with a Blur order
\* while the observed call is anywhere; it reads the registry and config only.
OtherBlurStarts ==
    /\ inflight < MaxInFlight
    /\ inflight' = inflight + 1
    /\ UNCHANGED <<config, handlers, pc, input, params, result, error, handlerCalls,
                   posts, received, res>>
    /\ UNCHANGED listingVars

\* That call's post is answered or fails, and the call resolves or rejects.
OtherBlurSettles ==
    /\ inflight > 0
    /\ inflight' = inflight - 1
    /\ UNCHANGED <<config, handlers, pc, input, params, result, error, handlerCalls,
                   posts, received, res>>
    /\ UNCHANGED listingVars

Next ==
    \/ OtherBlurStarts
    \/ OtherBlurSettles
    \/ \E p \in PostOrderReqs : HandleBlur(p)
    \/ \E p \in PostOrderReqs : HandleOther(p)
    \/ \E r \in Responses : PostResponse(r)
    \/ PostFails
    \/ \E i \in 1..1, o \in {"fulfilled", "rejected"} : HandlerSettles(i, o)
    \/ Return

Spec == Init /\ [][Next]_vars

\* ------------------------------------------------ listing indexer actions
\* Mutant: the emptiness check is missing, the query is made for any list.
PrepareListing_NoCheck(nfts) ==
    /\ prepare.pc = "idle"
    /\ bulk.pc = "idle"
    /\ prepare' = [pc |-> "awaiting", nfts |-> nfts, error |-> "", value |-> "none"]
    /\ UNCHANGED <<config, handlers, callVars, bulk>>

\* prepareListing(nfts): an empty list is refused before any query is made.
PrepareListing(nfts) ==
    /\ prepare.pc = "idle"
    /\ bulk.pc = "idle"
    /\ prepare' =
          IF Len(nfts) = 0
          THEN [pc |-> "thrown", nfts |-> nfts,
                error |-> InvalidParamMessage("nfts", "nfts should not be empty"),
                value |-> "none"]
          ELSE [pc |-> "awaiting", nfts |-> nfts, error |-> "", value |-> "none"]
    /\ UNCHANGED <<config, handlers, callVars, bulk>>

\* The aggregator answers the listing query.
PrepareResponse(response) ==
    /\ prepare.pc = "awaiting"
    /\ prepare' =
          IF PostOutcome(response, "/listings").threw
          THEN [prepare EXCEPT !.pc = "thrown", !.error = "AggregatorApiException"]
          ELSE [prepare EXCEPT !.pc = "returned", !.value = "ListingStepData"]
    /\ UNCHANGED <<config, handlers, callVars, bulk>>

PrepareDone ==
    /\ prepare.pc \in {"returned", "thrown"}
    /\ prepare' = IdlePrepare
    /\ UNCHANGED <<config, handlers, callVars, bulk>>

\* bulkListing(orders, {autoApprove: true}): approval first, then the items.
BulkListing(orders) ==
    /\ bulk.pc = "idle"
    /\ prepare.pc = "idle"
    /\ bulk' = [pc |-> "approving", orders |-> orders,
                items |-> [i \in 1..Len(orders) |-> "todo"], result |-> <<<<>>, <<>>>>]
    /\ UNCHANGED <<config, handlers, callVars, prepare>>

ApprovalConfirmed ==
    /\ bulk.pc = "approving"
    /\ bulk' = [bulk EXCEPT !.pc = "listing"]
    /\ UNCHANGED <<config, handlers, callVars, prepare>>

\* The wallet refuses to sign item i.
SignFails(i) ==
    /\ bulk.pc = "listing"
    /\ i \in 1..Len(bulk.items)
    /\ bulk.items[i] = "todo"
    /\ bulk' = [bulk EXCEPT !.items[i] = "signFailed"]
    /\ UNCHANGED <<config, handlers, callVars, prepare>>

\* Item i is signed and posted through the dispatcher.
PostListingOrder(i) ==
    /\ bulk.pc = "listing"
    /\ i \in 1..Len(bulk.items)
    /\ bulk.items[i] = "todo"
    /\ bulk' = [bulk EXCEPT !.items[i] =
                   IF bulk.orders[i].kind = "Blur" THEN "awaitPost"
                   ELSE PostListingOutcome(handlers, bulk.orders[i])]
    /\ UNCHANGED <<config, handlers, callVars, prepare>>

\* The backend answers the Blur post of item i.
BulkPostResponse(i, response) ==
    /\ bulk.pc = "listing"
    /\ i \in 1..Len(bulk.items)
    /\ bulk.items[i] = "awaitPost"
    /\ bulk' = [bulk EXCEPT !.items[i] =
                   IF PostOutcome(response, "/post-order/v1").threw THEN "fail" ELSE "ok"]
    /\ UNCHANGED <<config, handlers, callVars, prepare>>

\* Every item has its outcome: the two index arrays are returned.
BulkReturn ==
    /\ bulk.pc = "listing"
    /\ \A i \in 1..Len(bulk.items) : bulk.items[i] \in {"ok", "fail", "signFailed"}
    /\ bulk' = [bulk EXCEPT !.pc = "returned",
                            !.result = <<IndexesOf(bulk.items, {"ok"}),
                                         IndexesOf(bulk.items, {"fail", "signFailed"})>>]
    /\ UNCHANGED <<config, handlers, callVars, prepare>>

BulkDone ==
    /\ bulk.pc = "returned"
    /\ bulk' = IdleBulk
    /\ UNCHANGED <<config, handlers, callVars, prepare>>

NextListing ==
    \/ \E nfts \in NftLists : PrepareListing(nfts)
    \/ \E r \in Responses : PrepareResponse(r)
    \/ PrepareDone
    \/ \E orders \in Batches : BulkListing(orders)
    \/ ApprovalConfirmed
    \/ \E i \in 1..MaxBatch : SignFails(i)
    \/ \E i \in 1..MaxBatch : PostListingOrder(i)
    \/ \E i \in 1..MaxBatch, r \in Responses : BulkPostResponse(i, r)
    \/ BulkReturn
    \/ BulkDone

SpecListing == Init /\ [][NextListing]_vars

\* ================================================================ claims
\* The kinds a handler was registered for at construction.
RegisteredAtConstruction == DOMAIN Constructor(config)

Started == pc # "idle"

\* A non-Blur call whose kind has a handler and whose version is v3 or v4.
Dispatchable ==
    /\ Started
    /\ input.order.kind # "Blur"
    /\ input.order.kind \in RegisteredAtConstruction
    /\ input.extraArgs.version \in {"v3", "v4"}

DataUntouched == params.order.data = input.order.data

\* C1: for a non-Blur order with a registered handler and version v3 or v4,
\* the dispatcher's call completes only after the handler's call, resolves
\* only if the handler's call was fulfilled, and rejects whenever the
\* handler's call was rejected.
C1_HandlerDecidesOutcome ==
    Dispatchable =>
        \A i \in 1..Len(handlerCalls) :
            /\ pc \in {"resolved", "rejected"} => handlerCalls[i].state # "pending"
            /\ pc = "resolved" => handlerCalls[i].state = "fulfilled"
            /\ handlerCalls[i].state = "rejected" => pc = "rejected"

\* C2: a Blur order never reaches a protocol handler, whatever the registry,
\* the version and the signature are: the one request of the call is the
\* unchanged PostOrderReq posted to the backend's /post-order/v1.
C2_BlurGoesToBackendOnly ==
    (Started /\ input.order.kind = "Blur") =>
        /\ handlerCalls = <<>>
        /\ posts = <<[url |-> "BASE_URL/aggregator/v1/eth/nft/post-order/v1",
                      body |-> input]>>
        /\ params = input

C2_Witness ==
    /\ pc = "resolved"
    /\ input.order.kind = "Blur"
    /\ config = ConfigKeys
    /\ input.extraArgs.version = "v9"
    /\ input.signature \in FullSignatures
    /\ input.bulkData.kind = "seaport-v1.5"

\* C3: a non-Blur kind without a handler registered at construction makes the
\* call fail with InvalidParamError('order.kind', ...), whatever the version
\* and the signature are; no handler is invoked and order.data stays as it was.
C3_UnregisteredKindFails ==
    (Started /\ input.order.kind # "Blur"
             /\ input.order.kind \notin RegisteredAtConstruction) =>
        /\ pc = "rejected"
        /\ error.name = "InvalidParamError"
        /\ error.param = "order.kind"
        /\ handlerCalls = <<>>
        /\ posts = <<>>
        /\ DataUntouched

C3_Witness ==
    /\ pc = "rejected"
    /\ input.order.kind = "X2Y2"
    /\ config = {"openSeaApiKeyConfig", "looksRareApiKeyConfig"}
    /\ input.extraArgs.version = "v9"
    /\ input.signature = NotHex

\* C4: a non-Blur order with a registered handler and a version that is
\* neither v3 nor v4 fails with InvalidParamError('extraArgs.version',
\* 'unsupported version ' + version), with or without a signature; the handler
\* is not invoked and order.data stays as it was.
C4_UnsupportedVersionFails ==
    (Started /\ input.order.kind # "Blur"
             /\ input.order.kind \in RegisteredAtConstruction
             /\ input.extraArgs.version \notin {"v3", "v4"}) =>
        /\ pc = "rejected"
        /\ error.name = "InvalidParamError"
        /\ error.param = "extraArgs.version"
        /\ error.message = "unsupported version " \o input.extraArgs.version
        /\ handlerCalls = <<>>
        /\ DataUntouched

C4_Witness ==
    /\ pc = "rejected"
    /\ input.order.kind = "SeaportV15"
    /\ input.extraArgs.version = "v9"
    /\ input.signature \in FullSignatures
    /\ ~SplitThrows(input.signature)
    /\ error.message = "unsupported version v9"

\* C8: with a present signature that splits, and version v3 or version v4
\* without the Seaport bulk kind, the order handed to the handler carries the
\* original order.data with signature, v, r, s set to the input signature and
\* its split components, every other field unchanged.
SplitMergeCase ==
    /\ Dispatchable
    /\ Truthy(input.signature)
    /\ ~SplitThrows(input.signature)
    /\ \/ input.extraArgs.version = "v3"
       \/ input.bulkData.kind # "seaport-v1.5"

C8_SplitFieldsMerged ==
    SplitMergeCase =>
        /\ Len(handlerCalls) = 1
        /\ LET d == handlerCalls[1].order.data
               old == input.order.data
               sp == splitSignature(input.signature)
           IN /\ DOMAIN d = DOMAIN old \cup {"signature", "v", "r", "s"}
              /\ d.signature = input.signature.bytes
              /\ d.v = <<sp.v>>
              /\ d.r = sp.r
              /\ d.s = sp.s
              /\ \A f \in DOMAIN old \ {"signature", "v", "r", "s"} : d[f] = old[f]
              /\ params.order.data = d

C8_Witness ==
    /\ SplitMergeCase
    /\ input.extraArgs.version = "v4"
    /\ input.bulkData.kind = "other"
    /\ input.order.data = SignedData
    /\ input.signature = Hex(Word(7) \o Word(137) \o <<1>>)
    /\ handlerCalls[1].order.data.v = <<28>>
    /\ handlerCalls[1].order.data.price = <<3>>

\* C9: with version v4, a present signature that splits and the Seaport bulk
\* kind, the order handed to the handler has order.data.signature equal to
\* encodeBulkOrderProofAndSignature(orderIndex, merkleProof, signature); v, r,
\* s are not merged and every other field of order.data is unchanged.
BulkCase ==
    /\ Dispatchable
    /\ input.extraArgs.version = "v4"
    /\ Truthy(input.signature)
    /\ ~SplitThrows(input.signature)
    /\ input.bulkData.kind = "seaport-v1.5"

C9_BulkSignaturePacked ==
    BulkCase =>
        /\ Len(handlerCalls) = 1
        /\ LET d == handlerCalls[1].order.data
               old == input.order.data
           IN /\ DOMAIN d = DOMAIN old \cup {"signature"}
              /\ d.signature = encodeBulkOrderProofAndSignature(
                                   input.bulkData.orderIndex,
                                   input.bulkData.merkleProof, input.signature)
              /\ \A f \in DOMAIN old \ {"signature"} : d[f] = old[f]
              /\ params.order.data = d

C9_Witness ==
    /\ BulkCase
    /\ input.order.data = FreshData
    /\ input.bulkData.orderIndex = 1
    /\ Len(input.bulkData.merkleProof) = 1
    /\ "v" \notin DOMAIN handlerCalls[1].order.data
    /\ Len(handlerCalls[1].order.data.signature) > Len(input.signature.bytes)

\* C10: with version v3 or v4, a present signature that cannot be split makes
\* the call fail with InvalidParamError('signature', ...); the handler is not
\* invoked and order.data stays as it was, also for a v4 Seaport bulk order.
UnsplittableCase ==
    /\ Dispatchable
    /\ Truthy(input.signature)
    /\ SplitThrows(input.signature)

C10_BadSignatureFails ==
    UnsplittableCase =>
        /\ pc = "rejected"
        /\ error.name = "InvalidParamError"
        /\ error.param = "signature"
        /\ handlerCalls = <<>>
        /\ DataUntouched

C10_Witness ==
    /\ UnsplittableCase
    /\ pc = "rejected"
    /\ input.extraArgs.version = "v4"
    /\ input.bulkData.kind = "seaport-v1.5"
    /\ input.signature = Hex(Word(7) \o Word(9) \o <<2>>)

\* C11: the backend post of a Blur order yields the envelope's data exactly
\* when its code is 'SUCCESS'; for every other code it fails with
\* AggregatorApiException(msg, code, path), and handle rejects with that error.
BlurAnswered == Started /\ input.order.kind = "Blur" /\ received # NoResponse

C11_PostYieldsDataOnSuccessOnly ==
    BlurAnswered =>
        IF received.code = "SUCCESS"
        THEN /\ res = received.data
             /\ pc = "resolved"
             /\ error = NoError
        ELSE /\ res = NoResult
             /\ pc = "rejected"
             /\ error.name = "AggregatorApiException"
             /\ error.message = received.msg
             /\ error.code = received.code
             /\ error.path = "/post-order/v1"

C11_Witness ==
    /\ BlurAnswered
    /\ received.code = "success"
    /\ pc = "rejected"
    /\ error.code = "success"
    /\ error.path = "/post-order/v1"

\* C12: the registry holds a handler for SeaportV15, LooksRareV2, X2Y2 exactly
\* when the matching API-key config was supplied at construction, never one
\* for Blur, and no step of handle (failing, or with other calls in flight)
\* changes it.
RegistryMatchesConfig ==
    /\ "SeaportV15" \in DOMAIN handlers <=> "openSeaApiKeyConfig" \in config
    /\ "LooksRareV2" \in DOMAIN handlers <=> "looksRareApiKeyConfig" \in config
    /\ "X2Y2" \in DOMAIN handlers <=> "x2y2ApiKeyConfig" \in config
    /\ "Blur" \notin DOMAIN handlers
    /\ DOMAIN handlers \subseteq {"SeaportV15", "LooksRareV2", "X2Y2"}

C12_RegistryFixedAtConstruction ==
    /\ []RegistryMatchesConfig
    /\ [][handlers' = handlers /\ config' = config]_vars

C12_Witness ==
    /\ pc = "rejected"
    /\ inflight > 0
    /\ input.order.kind = "LooksRareV2"
    /\ config = {"x2y2ApiKeyConfig"}
    /\ DOMAIN handlers = {"X2Y2"}

\* C13 as stated: for any 65-byte signature r || s || v the split accepts,
\* the v, r, s merged into order.data by a v3 or non-bulk v4 dispatch
\* reassemble (r || s || v) to the signature merged with them, the input's bytes.
FullSplitMergeCase ==
    /\ SplitMergeCase
    /\ Len(input.signature.bytes) = 2 * WordLen + 1

Reassembles(d) == d.r \o d.s \o d.v = d.signature

C13_RoundTrip ==
    FullSplitMergeCase =>
        /\ Len(handlerCalls) = 1
        /\ Reassembles(handlerCalls[1].order.data)
        /\ handlerCalls[1].order.data.signature = input.signature.bytes

\* C13, amended: the same for the signatures whose v byte is 27 or 28.
C13_RoundTripCanonicalV ==
    (FullSplitMergeCase /\ input.signature.bytes[2 * WordLen + 1] \in {27, 28}) =>
        /\ Len(handlerCalls) = 1
        /\ Reassembles(handlerCalls[1].order.data)
        /\ handlerCalls[1].order.data.signature = input.signature.bytes

C13_Witness ==
    /\ FullSplitMergeCase
    /\ input.extraArgs.version = "v3"
    /\ input.signature = Hex(Word(7) \o Word(137) \o <<27>>)
    /\ handlerCalls[1].order.data.r = Word(7)
    /\ handlerCalls[1].order.data.s = Word(137)
    /\ handlerCalls[1].order.data.v = <<27>>
    /\ Reassembles(handlerCalls[1].order.data)

\* C14: within one call of handle a protocol handler is invoked at most once,
\* and exactly once when the order is not Blur, its kind has a handler, the
\* version is v3 or v4 and the signature is absent (order.data then passes
\* through unchanged) or splits; in every other case it is not invoked.
ReachesHandler ==
    /\ input.order.kind # "Blur"
    /\ input.order.kind \in RegisteredAtConstruction
    /\ input.extraArgs.version \in {"v3", "v4"}
    /\ \/ ~Truthy(input.signature)
       \/ ~SplitThrows(input.signature)

C14_HandlerInvokedAtMostOnce ==
    Started =>
        /\ Len(handlerCalls) = IF ReachesHandler THEN 1 ELSE 0
        /\ ReachesHandler =>
              /\ handlerCalls[1].handler = HandlerClass(input.order.kind)
              /\ handlerCalls[1].order.kind = input.order.kind
              /\ ~Truthy(input.signature) =>
                    handlerCalls[1].order.data = input.order.data

C14_Witness ==
    /\ Started
    /\ ReachesHandler
    /\ input.signature = Undefined
    /\ input.order.data = SignedData
    /\ Len(handlerCalls) = 1
    /\ handlerCalls[1].state = "rejected"
    /\ handlerCalls[1].order.data = SignedData

\* ------------------------------------------------------- listing claims
Returned == bulk.pc = "returned"

\* An order the dispatcher refuses: no handler for its kind, or a version it
\* does not know.
Malformed(o) ==
    /\ o.kind # "Blur"
    /\ \/ o.kind \notin RegisteredAtConstruction
       \/ o.version \notin {"v3", "v4"}

\* A well-formed order of a configured marketplace.
WellFormed(o) ==
    /\ o.kind \in RegisteredAtConstruction
    /\ o.version \in {"v3", "v4"}

Elems(seq) == {seq[i] : i \in 1..Len(seq)}

C7_EmptyNftsFails ==
    (prepare.pc # "idle" /\ prepare.nfts = <<>>) =>
        /\ prepare.pc = "thrown"
        /\ prepare.error = "The param 'nfts' is invalid. nfts should not be empty"
        /\ prepare.value = "none"

C7_Witness ==
    /\ prepare.pc = "thrown"
    /\ prepare.nfts = <<>>
    /\ prepare.error = "The param 'nfts' is invalid. nfts should not be empty"

====
